---------------------------- MODULE Spec2Model ----------------------------
(***************************************************************************)
(* Actomyosin contraction in soft pillar rings: the parameter loader, the  *)
(* two contraction models, the derived quantities and the curve helpers.   *)
(*                                                                         *)
(* Numbers.  The Python code computes in floating point; the model         *)
(* computes in exact arithmetic.  A number is a record [n, d, pe] that     *)
(* stands for (n / d) * pi^pe, with n/d in lowest terms and d > 0.  The    *)
(* record with d = 0 stands for a non-finite numpy result (inf or nan,     *)
(* which numpy produces, with a warning, where a float64 is divided by     *)
(* zero).                                                                  *)
(*                                                                         *)
(* np.exp.  The parameter a_per_kBT is held in units of ln 2, so that      *)
(* np.exp(a_per_kBT * force * x) is exactly 2^(a * force * x); the inputs  *)
(* are chosen so that this exponent is an integer.                         *)
(***************************************************************************)
EXTENDS Integers, Sequences, FiniteSets, TLC

VARIABLES
    call,               \* the function the caller entered, with its arguments
    ret,                \* what that function returned
    done,               \* whether it has returned
    pc,                 \* the statement the run is at
    parameters,         \* load_parameters: the value list
    parameters_found,   \* load_parameters: the found flags
    parameter_names,    \* load_parameters: the schema in use
    lineNo,             \* load_parameters: the next line of f.readlines()
    fileOpened,         \* whether open(parameter_file) has been called
    error,              \* the exception that ended the run ("none" if none)
    exitStatus,         \* the exit status of the run (-1 while it runs)
    self,               \* the model object under construction or in use
    ic,                 \* the initial conditions
    sol,                \* the result object of solve_ivp
    series              \* velocities, transmitted_powers, dissipated_powers

runVars == <<pc, parameters, parameters_found, parameter_names, lineNo, fileOpened, error,
             exitStatus, self, ic, sol, series>>

(***************************************************************************)
(* Exact arithmetic                                                        *)
(***************************************************************************)
Abs(x) == IF x < 0 THEN -x ELSE x

RECURSIVE Gcd(_, _)
Gcd(a, b) == IF b = 0 THEN a ELSE Gcd(b, a % b)

NaN == [n |-> 0, d |-> 0, pe |-> 0]

IsNaN(x) == x.d = 0

Norm(n, d, pe) ==
    IF d = 0 THEN NaN
    ELSE IF n = 0 THEN [n |-> 0, d |-> 1, pe |-> 0]
    ELSE LET g == Gcd(Abs(n), Abs(d))
             s == IF d < 0 THEN -1 ELSE 1
         IN  [n |-> s * (n \div g), d |-> s * (d \div g), pe |-> pe]

R(k) == [n |-> k, d |-> 1, pe |-> 0]

Q(a, b) == Norm(a, b, 0)

Zero == R(0)

One == R(1)

Pi == [n |-> 1, d |-> 1, pe |-> 1]

RMul(x, y) ==
    IF IsNaN(x) \/ IsNaN(y) THEN NaN
    ELSE LET g1 == Gcd(Abs(x.n), y.d)
             g2 == Gcd(Abs(y.n), x.d)
         IN  Norm((x.n \div g1) * (y.n \div g2), (x.d \div g2) * (y.d \div g1),
                  x.pe + y.pe)

RInv(x) ==
    IF IsNaN(x) \/ x.n = 0 THEN NaN ELSE Norm(x.d, x.n, -x.pe)

RDiv(x, y) == RMul(x, RInv(y))

RNeg(x) == IF IsNaN(x) THEN NaN ELSE [x EXCEPT !.n = -x.n]

\* Sums are only ever formed of numbers with the same power of pi (or zero).
RAdd(x, y) ==
    CASE IsNaN(x) \/ IsNaN(y) -> NaN
      [] x.n = 0 -> y
      [] y.n = 0 -> x
      [] x.pe = y.pe ->
            LET g == Gcd(x.d, y.d)
            IN  Norm(x.n * (y.d \div g) + y.n * (x.d \div g), x.d * (y.d \div g), x.pe)

RSub(x, y) == RAdd(x, RNeg(y))

RSq(x) == RMul(x, x)

\* x >= y, for finite numbers free of pi
RGeq(x, y) == x.n * y.d >= y.n * x.d

RLt(x, y) == x.n * y.d < y.n * x.d

RPos(x) == ~IsNaN(x) /\ x.n > 0

RECURSIVE Pow2(_)
Pow2(k) == IF k = 0 THEN 1 ELSE 2 * Pow2(k - 1)

\* np.exp of an argument given in units of ln 2
Exp(x) ==
    CASE x.d = 1 /\ x.n >= 0 -> R(Pow2(x.n))
      [] x.d = 1 /\ x.n < 0 -> Q(1, Pow2(-x.n))

RECURSIVE RSum(_, _, _)
\* sum of F(lo), ..., F(hi), accumulated from lo upwards as the loops do
RSum(F(_), lo, hi) == IF lo > hi THEN Zero ELSE RAdd(RSum(F, lo, hi - 1), F(hi))

(***************************************************************************)
(* FullModel kinetics (models.py).  m is the object: a record of its       *)
(* attributes; Nh is a Python int.                                         *)
(***************************************************************************)
\* FullModel.__k_off
K_off(m, force) ==
    RAdd(RMul(m.k_off0_catch, Exp(RMul(RMul(RNeg(m.a_per_kBT), force), m.x_catch))),
         RMul(m.k_off0_slip, Exp(RMul(RMul(m.a_per_kBT, force), m.x_slip))))

RECURSIVE BindProd(_, _, _)
\* the inner loops of __calc_prob_dist: the product over i = 0..n-1
BindProd(m, total_force, n) ==
    IF n = 0 THEN One
    ELSE LET i == n - 1
         IN  RDiv(RMul(BindProd(m, total_force, i), RMul(R(m.Nh - i), m.k_on)),
                  RMul(R(i + 1), K_off(m, RDiv(total_force, R(i + 1)))))

\* mutant: the normaliser without the n = 0 base case
BindDenom_noBase(m, total_force) ==
    LET P(k) == BindProd(m, total_force, k)
    IN  RSum(P, 1, m.Nh)

\* the normaliser of __calc_prob_dist: denom = 1, then denom + prod for k = 1..Nh
BindDenom(m, total_force) ==
    LET P(k) == BindProd(m, total_force, k)
    IN  RAdd(One, RSum(P, 1, m.Nh))

\* FullModel.__calc_prob_dist: entry n of the Python list is element n + 1
Calc_prob_dist(m, total_force) ==
    [idx \in 1..(m.Nh + 1) |->
        RDiv(BindProd(m, total_force, idx - 1), BindDenom(m, total_force))]

\* mutant: the mean off-time taken over the bound states only
K_off_fil_bound(m, total_force) ==
    LET pns == Calc_prob_dist(m, total_force)
        P(j) == pns[j + 1]
        S(NB) == RSum(P, NB, m.Nh)
        Term(NB) ==
            RMul(RDiv(One, RMul(RMul(R(NB), K_off(m, RDiv(total_force, R(NB)))), P(NB))),
                 S(NB))
        T_off(NB_init) == RSum(Term, 1, NB_init)
        Weighted(NB_init) == RMul(P(NB_init), T_off(NB_init))
        T_off_av == RDiv(RSum(Weighted, 1, m.Nh), RSum(P, 1, m.Nh))
    IN  RDiv(One, T_off_av)

\* mutant: the inner sum over j starting at NB + 1 instead of NB
K_off_fil_exclusive(m, total_force) ==
    LET pns == Calc_prob_dist(m, total_force)
        P(j) == pns[j + 1]
        S(NB) == RSum(P, NB + 1, m.Nh)
        Term(NB) ==
            RMul(RDiv(One, RMul(RMul(R(NB), K_off(m, RDiv(total_force, R(NB)))), P(NB))),
                 S(NB))
        T_off(NB_init) == RSum(Term, 1, NB_init)
        Weighted(NB_init) == RMul(P(NB_init), T_off(NB_init))
        T_off_av == RSum(Weighted, 1, m.Nh)
    IN  RDiv(One, T_off_av)

\* FullModel.k_off_fil
K_off_fil(m, total_force) ==
    LET pns == Calc_prob_dist(m, total_force)
        P(j) == pns[j + 1]
        S(NB) == RSum(P, NB, m.Nh)
        Term(NB) ==
            RMul(RDiv(One, RMul(RMul(R(NB), K_off(m, RDiv(total_force, R(NB)))), P(NB))),
                 S(NB))
        T_off(NB_init) == RSum(Term, 1, NB_init)
        Weighted(NB_init) == RMul(P(NB_init), T_off(NB_init))
        T_off_av == RSum(Weighted, 1, m.Nh)
    IN  RDiv(One, T_off_av)

(***************************************************************************)
(* The contraction models (models.py)                                      *)
(***************************************************************************)
\* A0 as set by both constructors
RefArea(R0) == RMul(Pi, RSq(R0))

\* tau as set by both constructors
RelaxTime(h_eta, k_p) == RDiv(RMul(RMul(Q(6, 5), Pi), h_eta), k_p)

\* area and density_factor, computed alike by rhs and velocity of both models
DensityFactor(m, force) ==
    LET area == RMul(Pi, RSq(RSub(m.R0, RDiv(force, m.k_p))))
    IN  RMul(RDiv(RNeg(m.A0), area), RSub(RDiv(m.A0, area), m.rho_max_per_rho))

\* FullModel.rhs: a Python list of two numbers
FullRhs(m, t, y) ==
    LET force == y[1]
        N == y[2]
        force_prime ==
            RAdd(RDiv(RNeg(force), m.tau),
                 RDiv(RMul(RMul(m.xi_rho_a2, N), DensityFactor(m, force)), m.tau))
        N_prime ==
            RSub(RMul(m.k_on_fil, RSub(m.Nmax, N)), RMul(K_off_fil(m, force), N))
    IN  <<force_prime, N_prime>>

\* DensityModel.rhs: a Python list of one number
DensityRhs(m, t, y) ==
    LET force == y[1]
        force_prime ==
            RAdd(RDiv(RNeg(force), m.tau),
                 RDiv(RMul(m.xi_N_rho_a2, DensityFactor(m, force)), m.tau))
    IN  <<force_prime>>

\* mutant: the force rate, not divided by the pillar stiffness
FullVelocity_rate(m, t, force, N) ==
    RAdd(RDiv(RNeg(force), m.tau),
         RDiv(RMul(RMul(m.xi_rho_a2, N), DensityFactor(m, force)), m.tau))

\* FullModel.velocity
FullVelocity(m, t, force, N) ==
    RDiv(RAdd(RDiv(RNeg(force), m.tau),
              RDiv(RMul(RMul(m.xi_rho_a2, N), DensityFactor(m, force)), m.tau)),
         m.k_p)

\* DensityModel.velocity
DensityVelocity(m, t, force) ==
    RDiv(RAdd(RDiv(RNeg(force), m.tau),
              RDiv(RMul(m.xi_N_rho_a2, DensityFactor(m, force)), m.tau)),
         m.k_p)

(***************************************************************************)
(* Derived quantities (work_and_power.py)                                  *)
(***************************************************************************)
\* transmitted_power: numpy multiplies element by element
Transmitted_power(displacements, velocities, k_p) ==
    [k \in 1..Len(velocities) |->
        RMul(RMul(RMul(RMul(R(5), R(2)), k_p), displacements[k]), velocities[k])]

\* dissipated_power
Dissipated_power(velocities, h_eta) ==
    LET gamma == RMul(RMul(Q(6, 5), Pi), h_eta)
    IN  [k \in 1..Len(velocities) |->
            RMul(RMul(RMul(R(5), gamma), R(4)), RSq(velocities[k]))]

Min(a, b) == IF a <= b THEN a ELSE b

RECURSIVE WorkLoop_offset(_, _, _, _)
\* mutant: the accumulator starting at 1 instead of 0
WorkLoop_offset(t, powers, time_prev, k) ==
    IF k = 0 THEN One
    ELSE RAdd(WorkLoop_offset(t, powers, time_prev, k - 1),
              RMul(RSub(t[k], time_prev), powers[k]))

RECURSIVE WorkLoop(_, _, _, _)
\* the loop shared by work_elastic and work_diss, after k pairs of zip(t, powers);
\* the loop body never assigns time_prev
WorkLoop(t, powers, time_prev, k) ==
    IF k = 0 THEN Zero
    ELSE RAdd(WorkLoop(t, powers, time_prev, k - 1),
              RMul(RSub(t[k], time_prev), powers[k]))

\* work_elastic
Work_elastic(t, displacements, velocities, k_p) ==
    LET powers == Transmitted_power(displacements, velocities, k_p)
        time_prev == Zero
    IN  WorkLoop(t, powers, time_prev, Min(Len(t), Len(powers)))

\* work_diss
Work_diss(t, velocities, h_eta) ==
    LET powers == Dissipated_power(velocities, h_eta)
        time_prev == Zero
    IN  WorkLoop(t, powers, time_prev, Min(Len(t), Len(powers)))

(***************************************************************************)
(* Curve helpers (auxiliaries.py)                                          *)
(***************************************************************************)
RECURSIVE DiscretizeLoop(_, _, _, _, _, _)
\* the loop of discretize_curve from pair k on; acc is the pair of lists so far
DiscretizeLoop(time_points, displacements, step_size, k, idx, acc) ==
    IF k > Min(Len(time_points), Len(displacements)) THEN acc
    ELSE IF RGeq(time_points[k], RMul(R(idx), step_size))
         THEN DiscretizeLoop(time_points, displacements, step_size, k + 1, idx + 1,
                             <<Append(acc[1], time_points[k]), Append(acc[2], displacements[k])>>)
         ELSE DiscretizeLoop(time_points, displacements, step_size, k + 1, idx, acc)

\* mutant: a sample is taken only strictly after its grid time
Discretize_strict(time_points, displacements, step_size) ==
    LET RECURSIVE Loop(_, _, _)
        Loop(k, idx, acc) ==
            IF k > Min(Len(time_points), Len(displacements)) THEN acc
            ELSE IF RLt(RMul(R(idx), step_size), time_points[k])
                 THEN Loop(k + 1, idx + 1,
                           <<Append(acc[1], time_points[k]), Append(acc[2], displacements[k])>>)
                 ELSE Loop(k + 1, idx, acc)
    IN  Loop(1, 0, <<<<>>, <<>>>>)

\* discretize_curve
Discretize_curve(time_points, displacements, step_size) ==
    DiscretizeLoop(time_points, displacements, step_size, 1, 0, <<<<>>, <<>>>>)

\* an entry of [None] * n that was never assigned
None == [none |-> TRUE]

\* mutant: the last entry is never assigned
Velos_numerical_open(times, displacements) ==
    LET num_of_time_points == Len(times)
        dt == RMul(RSub(times[2], times[1]), R(60))
        velos0 == [k \in 1..num_of_time_points |-> None]
        velos1 == [velos0 EXCEPT ![1] = RDiv(RSub(displacements[2], displacements[1]), dt)]
    IN  [k \in 1..num_of_time_points |->
            IF k \in 2..(num_of_time_points - 1)
            THEN RDiv(RSub(displacements[k + 1], displacements[k - 1]), RMul(R(2), dt))
            ELSE velos1[k]]

\* velos_numerical for at least two time points and as many displacements:
\* velos[0], then the loop over range(1, n - 1), then velos[-1]
Velos_numerical(times, displacements) ==
    LET num_of_time_points == Len(times)
        dt == RMul(RSub(times[2], times[1]), R(60))
        velos0 == [k \in 1..num_of_time_points |-> None]
        velos1 == [velos0 EXCEPT ![1] = RDiv(RSub(displacements[2], displacements[1]), dt)]
        velos2 == [k \in 1..num_of_time_points |->
                     IF k \in 2..(num_of_time_points - 1)
                     THEN RDiv(RSub(displacements[k + 1], displacements[k - 1]),
                               RMul(R(2), dt))
                     ELSE velos1[k]]
    IN  [velos2 EXCEPT ![num_of_time_points] =
            RDiv(RSub(displacements[num_of_time_points],
                      displacements[num_of_time_points - 1]), dt)]

\* times[1] does not exist for fewer than two time points
VelosRaises(times, displacements) ==
    IF Len(times) < 2 \/ Len(displacements) < 2 THEN "IndexError" ELSE "none"

(***************************************************************************)
(* Python values: a float or an int, as int() and float() tell them apart  *)
(***************************************************************************)
PyFloat(x) == [ty |-> "float", v |-> x]

PyInt(k) == [ty |-> "int", v |-> R(k)]

ValueError == [ty |-> "ValueError", v |-> NaN]

\* the integer literals that occur in the parameter files
IntLiteral == ("0" :> 0) @@ ("1" :> 1) @@ ("2" :> 2) @@ ("3" :> 3) @@ ("4" :> 4) @@ ("7" :> 7)

\* the decimal literals that occur in the parameter files
FloatLiteral ==
    ("0.0" :> Q(0, 1)) @@ ("0.5" :> Q(1, 2)) @@ ("1.0" :> Q(1, 1)) @@ ("1.5" :> Q(3, 2))
    @@ ("2.0" :> Q(2, 1)) @@ ("2.5" :> Q(5, 2)) @@ ("3.0" :> Q(3, 1)) @@ ("4.0" :> Q(4, 1))
    @@ ("5.0" :> Q(5, 1)) @@ ("6.0" :> Q(6, 1))

\* int(token): a decimal point or a word raises ValueError
PyIntOf(tok) == IF tok \in DOMAIN IntLiteral THEN PyInt(IntLiteral[tok]) ELSE ValueError

\* float(token): takes integer literals too
PyFloatOf(tok) ==
    CASE tok \in DOMAIN FloatLiteral -> PyFloat(FloatLiteral[tok])
      [] tok \in DOMAIN IntLiteral -> PyFloat(R(IntLiteral[tok]))
      [] OTHER -> ValueError

(***************************************************************************)
(* The parameter loader (parameter_loader.py)                              *)
(***************************************************************************)
full_model_parameter_names ==
    <<"x_catch", "x_slip", "k_off^catch", "k_off^slip", "k_on", "k_on_fil", "a/kBT", "N_h",
      "N_max", "h*eta_am^eff", "xi*rho_a(t=0)^2", "rho_a^max/rho_a(t=0)", "R0">>

density_model_parameter_names ==
    <<"h*eta_am^eff", "xi*NM*rho_a(t=0)^2", "rho_a^max/rho_a(t=0)", "R0">>

\* parameter_names.index(name): 0 stands for the ValueError of a name not in the list
IndexOf(names, name) ==
    LET S == {k \in 1..Len(names) : names[k] = name}
    IN  IF S = {} THEN 0 ELSE CHOOSE k \in S : \A j \in S : k <= j

\* mutant: a parameter that was found before keeps its first value
Store_keepFirst(params, found, idx, val) ==
    IF found[idx] = 1 THEN params ELSE [params EXCEPT ![idx] = val]

\* parameters[idx] = value (lines 42 and 44); found holds the flags before the line
Store(params, found, idx, val) == [params EXCEPT ![idx] = val]

\* the outcome of lines 41-44 for one token: an int for N_h and N_max, else a float
ParseValue(name, tok) ==
    IF name = "N_h" \/ name = "N_max" THEN PyIntOf(tok) ELSE PyFloatOf(tok)

\* the state of load_parameters after the loop body has run on line_split:
\* its lists, and the exception that escaped the body ("none" if none)
ProcessLine(names, params, found, line_split) ==
    IF Len(line_split) = 0
    THEN [parameters |-> params, parameters_found |-> found, raised |-> "IndexError"]
    ELSE LET idx == IndexOf(names, line_split[1])
         IN  IF idx = 0
             THEN \* ValueError of index(): caught, a warning is printed
                  [parameters |-> params, parameters_found |-> found, raised |-> "none"]
             ELSE LET found1 == [found EXCEPT ![idx] = 1]
                  IN  IF Len(line_split) < 3
                      THEN [parameters |-> params, parameters_found |-> found1,
                            raised |-> "IndexError"]
                      ELSE LET val == ParseValue(line_split[1], line_split[3])
                           IN  IF val = ValueError
                               THEN \* ValueError of int() or float(): caught likewise
                                    [parameters |-> params, parameters_found |-> found1,
                                     raised |-> "none"]
                               ELSE [parameters |-> Store(params, found, idx, val),
                                     parameters_found |-> found1, raised |-> "none"]

\* mutant: a model type that is not known falls through to the density schema
KnownModelType_lenient(model_type) == TRUE

\* the model types that lines 22-29 (and lines 29-32 of
\* calculate_contraction_dynamics) accept
KnownModelType(model_type) == model_type \in {"full model", "density model"}

\* mutant: the completeness test looking at the first flag only
Incomplete_first(found) == found[1] = 0

\* line 50: 0 in parameters_found
Incomplete(found) == \E k \in 1..Len(found) : found[k] = 0

\* what ends a run that raises: sys.exit(1) and an uncaught exception both
\* end the interpreter with exit status 1
Raise(exc) ==
    /\ error' = exc
    /\ exitStatus' = 1
    /\ pc' = "exited"

\* lines 22-33
LP_Enter ==
    /\ pc = "lp_enter"
    /\ IF KnownModelType(call.model_type)
       THEN LET names == IF call.model_type = "full model"
                         THEN full_model_parameter_names
                         ELSE density_model_parameter_names
            IN  /\ parameters' = [k \in 1..Len(names) |-> PyFloat(Zero)]
                /\ parameters_found' = [k \in 1..Len(names) |-> 0]
                /\ parameter_names' = names
                /\ pc' = "lp_open"
                /\ UNCHANGED <<error, exitStatus>>
       ELSE /\ Raise("SystemExit")
            /\ UNCHANGED <<parameters, parameters_found, parameter_names>>
    /\ UNCHANGED <<call, ret, done, lineNo, fileOpened, self, ic, sol, series>>

\* line 35 and f.readlines()
LP_Open ==
    /\ pc = "lp_open"
    /\ fileOpened' = TRUE
    /\ lineNo' = 1
    /\ pc' = "lp_lines"
    /\ UNCHANGED <<call, ret, done, parameters, parameters_found, parameter_names,
                   error, exitStatus, self, ic, sol, series>>

\* lines 36-47, one pass of the loop
LP_ReadLine ==
    /\ pc = "lp_lines"
    /\ lineNo <= Len(call.parameter_file)
    /\ LET after == ProcessLine(parameter_names, parameters, parameters_found,
                                call.parameter_file[lineNo])
       IN  /\ parameters' = after.parameters
           /\ parameters_found' = after.parameters_found
           /\ IF after.raised = "none"
              THEN /\ lineNo' = lineNo + 1
                   /\ UNCHANGED <<pc, error, exitStatus>>
              ELSE /\ Raise(after.raised)
                   /\ UNCHANGED lineNo
    /\ UNCHANGED <<call, ret, done, parameter_names, fileOpened, self, ic, sol, series>>

\* lines 49-55
LP_Close ==
    /\ pc = "lp_lines"
    /\ lineNo > Len(call.parameter_file)
    /\ IF Incomplete(parameters_found)
       THEN /\ Raise("SystemExit")
            /\ UNCHANGED <<ret, done>>
       ELSE IF call.fn = "load_parameters"
            THEN /\ ret' = [fn |-> "load_parameters", parameters |-> parameters]
                 /\ done' = TRUE
                 /\ pc' = "returned"
                 /\ UNCHANGED <<error, exitStatus>>
            ELSE /\ pc' = "model_init"
                 /\ UNCHANGED <<ret, done, error, exitStatus>>
    /\ UNCHANGED <<call, parameters, parameters_found, parameter_names, lineNo, fileOpened,
                   self, ic, sol, series>>

(***************************************************************************)
(* Construction of the model objects (models.py)                           *)
(***************************************************************************)
NoObject == [cls |-> "none"]

\* FullModel.__init__, lines 36-48, given the list load_parameters returned
FullModelInit(p, pillar_stiffness) ==
    [cls |-> "FullModel",
     x_catch |-> p[1], x_slip |-> p[2], k_off0_catch |-> p[3], k_off0_slip |-> p[4],
     k_on |-> p[5], k_on_fil |-> p[6], a_per_kBT |-> p[7], Nh |-> p[8], Nmax |-> p[9],
     h_eta |-> p[10], xi_rho_a2 |-> p[11], rho_max_per_rho |-> p[12], R0 |-> p[13],
     k_p |-> PyFloat(pillar_stiffness),
     parameter_dict |->
        ("x_catch" :> p[1]) @@ ("x_slip" :> p[2]) @@ ("k_off0_catch" :> p[3])
        @@ ("k_off0_slip" :> p[4]) @@ ("k_on" :> p[5]) @@ ("k_on_fil" :> p[6])
        @@ ("a_per_kBT" :> p[7]) @@ ("Nh" :> p[8]) @@ ("Nmax" :> p[9]) @@ ("h_eta" :> p[10])
        @@ ("xi_rho_a2" :> p[11]) @@ ("rho_max_per_rho" :> p[12]) @@ ("R0" :> p[13])
        @@ ("k_p" :> PyFloat(pillar_stiffness)),
     A0 |-> PyFloat(RefArea(p[13].v)),
     tau |-> PyFloat(RelaxTime(p[10].v, pillar_stiffness))]

\* DensityModel.__init__, lines 201-208
DensityModelInit(p, pillar_stiffness) ==
    [cls |-> "DensityModel",
     h_eta |-> p[1], xi_N_rho_a2 |-> p[2], rho_max_per_rho |-> p[3], R0 |-> p[4],
     k_p |-> PyFloat(pillar_stiffness),
     parameter_dict |->
        ("h_eta" :> p[1]) @@ ("xi_N_rho_a2" :> p[2]) @@ ("rho_max_per_rho" :> p[3])
        @@ ("R0" :> p[4]) @@ ("k_p" :> PyFloat(pillar_stiffness)),
     A0 |-> PyFloat(RefArea(p[4].v)),
     tau |-> PyFloat(RelaxTime(p[1].v, pillar_stiffness))]

\* get_parameter of either model
Get_parameter(obj, parameter_name) == obj.parameter_dict[parameter_name]

\* the attributes of a FullModel as the numbers its methods compute with
FullNumbers(obj) ==
    [x_catch |-> obj.x_catch.v, x_slip |-> obj.x_slip.v,
     k_off0_catch |-> obj.k_off0_catch.v, k_off0_slip |-> obj.k_off0_slip.v,
     k_on |-> obj.k_on.v, k_on_fil |-> obj.k_on_fil.v, a_per_kBT |-> obj.a_per_kBT.v,
     Nh |-> obj.Nh.v.n, Nmax |-> obj.Nmax.v, h_eta |-> obj.h_eta.v,
     xi_rho_a2 |-> obj.xi_rho_a2.v, rho_max_per_rho |-> obj.rho_max_per_rho.v,
     R0 |-> obj.R0.v, k_p |-> obj.k_p.v, A0 |-> obj.A0.v, tau |-> obj.tau.v]

\* the attributes of a DensityModel as numbers
DensityNumbers(obj) ==
    [h_eta |-> obj.h_eta.v, xi_N_rho_a2 |-> obj.xi_N_rho_a2.v,
     rho_max_per_rho |-> obj.rho_max_per_rho.v, R0 |-> obj.R0.v, k_p |-> obj.k_p.v,
     A0 |-> obj.A0.v, tau |-> obj.tau.v]

\* the constructor of either class, after load_parameters has returned
Model_Init ==
    /\ pc = "model_init"
    /\ self' = IF call.model_type = "full model"
               THEN FullModelInit(parameters, call.pillar_stiffness)
               ELSE DensityModelInit(parameters, call.pillar_stiffness)
    /\ pc' = "initial_conditions"
    /\ UNCHANGED <<call, ret, done, parameters, parameters_found, parameter_names, lineNo,
                   fileOpened, error, exitStatus, ic, sol, series>>

(***************************************************************************)
(* calculate_contraction_dynamics                                          *)
(***************************************************************************)
f_init == 7

t_min == 0

NotStarted == [status |-> "not started", t |-> <<>>, y |-> <<>>]

NoSeries == [velocities |-> <<>>, transmitted_powers |-> <<>>, dissipated_powers |-> <<>>]

\* lines 29-36: the constructors call load_parameters first of all
CCD_Enter ==
    /\ pc = "ccd_enter"
    /\ IF KnownModelType(call.model_type)
       THEN /\ pc' = "lp_enter"
            /\ UNCHANGED <<error, exitStatus>>
       ELSE Raise("SystemExit")
    /\ UNCHANGED <<call, ret, done, parameters, parameters_found, parameter_names, lineNo,
                   fileOpened, self, ic, sol, series>>

\* the exception of FullModel.k_off_fil for this object ("none" if none):
\* range(0, self.Nh + 1) takes no float, and 1 / T_off_av divides by the int 0
\* when no head exists
KOffFilRaises(obj) ==
    CASE obj.Nh.ty # "int" -> "TypeError"
      [] obj.Nh.ty = "int" /\ obj.Nh.v.n <= 0 -> "ZeroDivisionError"
      [] OTHER -> "none"

\* line 45
FullInitialConditions(obj) ==
    LET k_on_fil == Get_parameter(obj, "k_on_fil").v
        Nmax == Get_parameter(obj, "Nmax").v
    IN  <<R(f_init),
          RMul(RDiv(k_on_fil, RAdd(K_off_fil(FullNumbers(obj), R(f_init)), k_on_fil)), Nmax)>>

\* lines 38-47
CCD_InitialConditions ==
    /\ pc = "initial_conditions"
    /\ IF call.model_type = "full model"
       THEN IF KOffFilRaises(self) = "none"
            THEN /\ ic' = FullInitialConditions(self)
                 /\ pc' = "solve_ivp"
                 /\ UNCHANGED <<error, exitStatus>>
            ELSE /\ Raise(KOffFilRaises(self))
                 /\ UNCHANGED ic
       ELSE /\ ic' = <<Zero>>
            /\ pc' = "solve_ivp"
            /\ UNCHANGED <<error, exitStatus>>
    /\ UNCHANGED <<call, ret, done, parameters, parameters_found, parameter_names, lineNo,
                   fileOpened, self, sol, series>>

(***************************************************************************)
(* scipy.integrate.solve_ivp, from outside: it starts at (t_min, ic), takes *)
(* steps of its own choosing to states of its own computing, and ends      *)
(* either at t_max (status 0) or before it (status -1, success False).     *)
(***************************************************************************)
\* the forces and filament numbers the integrator may arrive at
SolverForces == {R(0), R(7)}

SolverCounts == {R(1), R(2)}

SolverStates(dim) ==
    IF dim = 1 THEN {<<f>> : f \in SolverForces}
    ELSE {<<f, N>> : f \in SolverForces, N \in SolverCounts}

Last(q) == q[Len(q)]

\* line 50, the call
IVP_Start ==
    /\ pc = "solve_ivp"
    /\ sol' = [status |-> "running", t |-> <<R(t_min)>>, y |-> [r \in 1..Len(ic) |-> <<ic[r]>>]]
    /\ pc' = "integrating"
    /\ UNCHANGED <<call, ret, done, parameters, parameters_found, parameter_names, lineNo,
                   fileOpened, error, exitStatus, self, ic, series>>

\* one accepted step of the integrator
IVP_Step ==
    /\ pc = "integrating"
    /\ \E tn \in 1..call.t_max, yn \in SolverStates(Len(ic)) :
          /\ RLt(Last(sol.t), R(tn))
          /\ sol' = [sol EXCEPT !.t = Append(@, R(tn)),
                                !.y = [r \in 1..Len(ic) |-> Append(@[r], yn[r])]]
    /\ UNCHANGED <<call, ret, done, pc, parameters, parameters_found, parameter_names, lineNo,
                   fileOpened, error, exitStatus, self, ic, series>>

\* the integrator reaches t_max
IVP_Finish ==
    /\ pc = "integrating"
    /\ Last(sol.t) = R(call.t_max)
    /\ sol' = [sol EXCEPT !.status = "0"]
    /\ pc' = "derive"
    /\ UNCHANGED <<call, ret, done, parameters, parameters_found, parameter_names, lineNo,
                   fileOpened, error, exitStatus, self, ic, series>>

\* the integrator gives up before t_max
IVP_Fail ==
    /\ pc = "integrating"
    /\ RLt(Last(sol.t), R(call.t_max))
    /\ sol' = [sol EXCEPT !.status = "-1"]
    /\ pc' = "derive"
    /\ UNCHANGED <<call, ret, done, parameters, parameters_found, parameter_names, lineNo,
                   fileOpened, error, exitStatus, self, ic, series>>

\* mutant: the velocities of all points but the first
Velocities_tail(obj, model_type, s) ==
    IF model_type = "full model"
    THEN [k \in 1..(Len(s.t) - 1) |->
            FullVelocity(FullNumbers(obj), s.t[k + 1], s.y[1][k + 1], s.y[2][k + 1])]
    ELSE [k \in 1..(Len(s.t) - 1) |->
            DensityVelocity(DensityNumbers(obj), s.t[k + 1], s.y[1][k + 1])]

\* lines 53-56: numpy applies velocity to the arrays element by element
Velocities(obj, model_type, s) ==
    IF model_type = "full model"
    THEN [k \in 1..Len(s.t) |-> FullVelocity(FullNumbers(obj), s.t[k], s.y[1][k], s.y[2][k])]
    ELSE [k \in 1..Len(s.t) |-> DensityVelocity(DensityNumbers(obj), s.t[k], s.y[1][k])]

\* sol.y[0] / pillar_stiffness
Displacements(s, pillar_stiffness) ==
    [k \in 1..Len(s.y[1]) |-> RDiv(s.y[1][k], pillar_stiffness)]

\* lines 52-59
CCD_Derive ==
    /\ pc = "derive"
    /\ LET velocities == Velocities(self, call.model_type, sol)
       IN  series' =
              [velocities |-> velocities,
               transmitted_powers |->
                  Transmitted_power(Displacements(sol, call.pillar_stiffness), velocities,
                                    Get_parameter(self, "k_p").v),
               dissipated_powers |->
                  Dissipated_power(velocities, Get_parameter(self, "h_eta").v)]
    /\ pc' = "work"
    /\ UNCHANGED <<call, ret, done, parameters, parameters_found, parameter_names, lineNo,
                   fileOpened, error, exitStatus, self, ic, sol>>

\* lines 61-65: the status of sol is not looked at
CCD_Return ==
    /\ pc = "work"
    /\ ret' = [fn |-> "calculate_contraction_dynamics",
               t |-> sol.t,
               y |-> sol.y,
               velocities |-> series.velocities,
               transmitted_powers |-> series.transmitted_powers,
               dissipated_powers |-> series.dissipated_powers,
               transmitted_work |->
                  Work_elastic(sol.t, Displacements(sol, call.pillar_stiffness),
                               series.velocities, Get_parameter(self, "k_p").v),
               dissipated_work |->
                  Work_diss(sol.t, series.velocities, Get_parameter(self, "h_eta").v)]
    /\ done' = TRUE
    /\ pc' = "returned"
    /\ UNCHANGED <<call, parameters, parameters_found, parameter_names, lineNo,
                   fileOpened, error, exitStatus, self, ic, sol, series>>

(***************************************************************************)
(* The parameter files of a run: the complete file of a model type, its    *)
(* lines in schema order or in reverse, and the files one edit away from   *)
(* it (two edits for the density model).                                   *)
(***************************************************************************)
BaseToken ==
    ("x_catch" :> "1.5") @@ ("x_slip" :> "0.5") @@ ("k_off^catch" :> "1.0")
    @@ ("k_off^slip" :> "3.0") @@ ("k_on" :> "4.0") @@ ("k_on_fil" :> "2.0")
    @@ ("a/kBT" :> "0.0") @@ ("N_h" :> "2") @@ ("N_max" :> "3") @@ ("h*eta_am^eff" :> "5.0")
    @@ ("xi*rho_a(t=0)^2" :> "6.0") @@ ("xi*NM*rho_a(t=0)^2" :> "6.0")
    @@ ("rho_a^max/rho_a(t=0)" :> "2.5") @@ ("R0" :> "2.0")

\* another well-formed value of each parameter
OtherToken ==
    ("x_catch" :> "0.5") @@ ("x_slip" :> "1.5") @@ ("k_off^catch" :> "2.0")
    @@ ("k_off^slip" :> "1.0") @@ ("k_on" :> "2.0") @@ ("k_on_fil" :> "1.0")
    @@ ("a/kBT" :> "0") @@ ("N_h" :> "1") @@ ("N_max" :> "4") @@ ("h*eta_am^eff" :> "2.5")
    @@ ("xi*rho_a(t=0)^2" :> "3.0") @@ ("xi*NM*rho_a(t=0)^2" :> "3.0")
    @@ ("rho_a^max/rho_a(t=0)" :> "2.0") @@ ("R0" :> "3.0")

\* values a line may be given instead: another one, a word, and for the two
\* integer parameters a decimal literal
EditTokens(name) ==
    {OtherToken[name], "abc"} \cup (IF name \in {"N_h", "N_max"} THEN {"2.5"} ELSE {})

Line(name, tok) == <<name, "=", tok>>

BaseFile(names) == [k \in 1..Len(names) |-> Line(names[k], BaseToken[names[k]])]

Reverse(q) == [k \in 1..Len(q) |-> q[Len(q) + 1 - k]]

RemoveAt(q, i) == [k \in 1..(Len(q) - 1) |-> IF k < i THEN q[k] ELSE q[k + 1]]

\* lines that may be added to a file: a second line for a parameter, a line
\* cut after the name, an empty line, a line for a name outside the schema
ExtraLines(names) ==
    {Line(names[k], OtherToken[names[k]]) : k \in 1..Len(names)}
    \cup {<<names[k]>> : k \in 1..Len(names)}
    \cup {<<>>, Line("T", "1.0")}

OneEdit(f, names) ==
    {RemoveAt(f, i) : i \in 1..Len(f)}
    \cup UNION {{[f EXCEPT ![i] = Line(f[i][1], tok)] : tok \in EditTokens(f[i][1])} :
                  i \in {k \in 1..Len(f) : Len(f[k]) = 3 /\ f[k][1] \in DOMAIN OtherToken}}
    \cup {<<l>> \o f : l \in ExtraLines(names)}
    \cup {Append(f, l) : l \in ExtraLines(names)}

Edited(F, names) == F \cup UNION {OneEdit(f, names) : f \in F}

Files(model_type) ==
    CASE model_type = "full model" ->
            LET b == BaseFile(full_model_parameter_names)
            IN  Edited({b, Reverse(b)}, full_model_parameter_names)
      [] model_type = "density model" ->
            LET b == BaseFile(density_model_parameter_names)
            IN  Edited(Edited({b, Reverse(b)}, density_model_parameter_names),
                       density_model_parameter_names)
      [] OTHER -> {BaseFile(density_model_parameter_names),
                   BaseFile(full_model_parameter_names)}

\* the model types a caller passes: the two that exist and the third that
\* the docstring of load_parameters names
ModelTypes == {"full model", "density model", "constant force model"}

\* the largest t_max (in whole seconds)
MaxTMax == 2

Idle ==
    /\ parameters = <<>>
    /\ parameters_found = <<>>
    /\ parameter_names = <<>>
    /\ lineNo = 0
    /\ fileOpened = FALSE
    /\ error = "none"
    /\ exitStatus = -1
    /\ self = NoObject
    /\ ic = <<>>
    /\ sol = NotStarted
    /\ series = NoSeries

Init ==
    /\ done = FALSE
    /\ ret = [fn |-> "none"]
    /\ Idle
    /\ \/ /\ pc = "ccd_enter"
          /\ \E mt \in ModelTypes : \E f \in Files(mt), tm \in 1..MaxTMax :
                call = [fn |-> "calculate_contraction_dynamics", model_type |-> mt,
                        parameter_file |-> f, t_max |-> tm, pillar_stiffness |-> R(7)]
       \/ /\ pc = "lp_enter"
          /\ \E mt \in ModelTypes : \E f \in Files(mt) :
                call = [fn |-> "load_parameters", model_type |-> mt, parameter_file |-> f]

Next ==
    \/ CCD_Enter
    \/ LP_Enter
    \/ LP_Open
    \/ LP_ReadLine
    \/ LP_Close
    \/ Model_Init
    \/ CCD_InitialConditions
    \/ IVP_Start
    \/ IVP_Step
    \/ IVP_Finish
    \/ IVP_Fail
    \/ CCD_Derive
    \/ CCD_Return

(***************************************************************************)
(* Direct calls of the library's functions                                 *)
(***************************************************************************)
MaxNh == 3

\* the largest power of two that np.exp is asked for
MaxExponent == 6

RECURSIVE Lcm1(_)
Lcm1(k) == IF k <= 1 THEN 1 ELSE LET l == Lcm1(k - 1) IN (l * k) \div Gcd(l, k)

\* a load that any number 1..nh of bound heads shares in integer parts
SharedLoad(nh) == R(Lcm1(nh))

KineticModels ==
    {m \in [x_catch : {R(0), R(1)}, x_slip : {R(0), R(1)},
            k_off0_catch : {R(1), R(3)}, k_off0_slip : {R(1), Q(1, 2)},
            k_on : {R(1), R(2)}, a_per_kBT : {R(0), R(1)}, Nh : 1..MaxNh] :
        /\ m.x_catch = R(0) \/ m.x_slip = R(0)
        /\ m.a_per_kBT = R(0) \/ Lcm1(m.Nh) <= MaxExponent}

\* the longest input sequence
MaxLen == 3

\* the largest time in an input sequence
MaxTime == 4

RECURSIVE SeqsUpTo(_, _)
\* the sequences over S of length at most n
SeqsUpTo(S, n) ==
    IF n = 0 THEN {<<>>}
    ELSE LET shorter == SeqsUpTo(S, n - 1)
         IN  shorter \cup {Append(q, x) : q \in {p \in shorter : Len(p) = n - 1}, x \in S}

SeqsOfLen(S, n) == {q \in SeqsUpTo(S, n) : Len(q) = n}

TimeSeqs == SeqsUpTo({R(k) : k \in 0..MaxTime}, MaxLen)

WorkTimeSeqs == SeqsUpTo({R(1), R(2), R(4)}, MaxLen)

\* the points of a curve, told apart by their displacement
Tagged(n) == [k \in 1..n |-> R(10 + k)]

\* model objects for direct calls of rhs and velocity, as their constructors
\* leave them: A0 and tau follow from R0, h_eta and k_p
FullModels ==
    {[x_catch |-> k.x_catch, x_slip |-> k.x_slip, k_off0_catch |-> k.k_off0_catch,
      k_off0_slip |-> k.k_off0_slip, k_on |-> k.k_on, k_on_fil |-> R(2),
      a_per_kBT |-> k.a_per_kBT, Nh |-> k.Nh, Nmax |-> R(3), h_eta |-> R(5),
      xi_rho_a2 |-> R(6), rho_max_per_rho |-> rho, R0 |-> r0, k_p |-> R(7),
      A0 |-> RefArea(r0), tau |-> RelaxTime(R(5), R(7))] :
        k \in {m \in KineticModels : m.a_per_kBT = Zero /\ m.x_catch = Zero /\ m.Nh <= 2},
        rho \in {Q(5, 2), R(4)}, r0 \in {R(2), R(3)}}

DensityModels ==
    {[h_eta |-> h, xi_N_rho_a2 |-> xi, rho_max_per_rho |-> rho, R0 |-> r0, k_p |-> R(7),
      A0 |-> RefArea(r0), tau |-> RelaxTime(h, R(7))] :
        h \in {R(1), R(5)}, xi \in {R(6), R(12)}, rho \in {Q(5, 2), R(4)},
        r0 \in {R(2), R(3)}}

\* forces on the pillar; at force 14 a ring of radius 2 has closed (area 0)
RingForces == {R(0), R(7), R(14), R(21)}

RingCounts == {R(1), R(2)}

\* strictly increasing time points
Increasing(t) == \A k \in 1..(Len(t) - 1) : RLt(t[k], t[k + 1])

InitFn ==
    /\ done = FALSE
    /\ ret = [fn |-> "none"]
    /\ pc = "direct"
    /\ Idle
    /\ \/ \E m \in KineticModels : \E f \in {Zero, SharedLoad(m.Nh)} :
              call = [fn |-> "k_off_fil", self |-> m, total_force |-> f]
       \/ \E t \in WorkTimeSeqs :
              \E d \in SeqsOfLen({R(1), Q(1, 2)}, Len(t)), v \in SeqsOfLen({R(-1), R(2)}, Len(t)) :
                  call = [fn |-> "work_elastic", t |-> t, displacements |-> d,
                          velocities |-> v, k_p |-> R(35)]
       \/ \E t \in WorkTimeSeqs :
              \E v \in SeqsOfLen({R(-1), R(2)}, Len(t)), h \in {R(1), R(5)} :
                  call = [fn |-> "work_diss", t |-> t, velocities |-> v, h_eta |-> h]
       \/ \E t \in TimeSeqs, step \in {R(1), R(2)} :
              call = [fn |-> "discretize_curve", time_points |-> t,
                      displacements |-> Tagged(Len(t)), step_size |-> step]
       \/ \E t \in {q \in TimeSeqs : Increasing(q)} :
              \E d \in SeqsOfLen({R(0), R(1), R(3)}, Len(t)) :
                  call = [fn |-> "velos_numerical", times |-> t, displacements |-> d]
       \/ \E m \in FullModels, f \in RingForces, N \in RingCounts :
              \/ call = [fn |-> "FullModel.rhs", self |-> m, t |-> Zero, y |-> <<f, N>>]
              \/ call = [fn |-> "FullModel.velocity", self |-> m, t |-> Zero,
                         force |-> f, N |-> N]
       \/ \E m \in DensityModels, f \in RingForces :
              \/ call = [fn |-> "DensityModel.rhs", self |-> m, t |-> Zero, y |-> <<f>>]
              \/ call = [fn |-> "DensityModel.velocity", self |-> m, t |-> Zero, force |-> f]

\* FullModel.k_off_fil, with what it reads on the way
Call_k_off_fil ==
    /\ call.fn = "k_off_fil"
    /\ ~done
    /\ done' = TRUE
    /\ ret' = [fn |-> "k_off_fil",
               pns |-> Calc_prob_dist(call.self, call.total_force),
               k_off |-> K_off(call.self, call.total_force),
               k_off_fil |-> K_off_fil(call.self, call.total_force)]
    /\ UNCHANGED <<call, runVars>>

Call_work_elastic ==
    /\ call.fn = "work_elastic"
    /\ ~done
    /\ done' = TRUE
    /\ ret' = [fn |-> "work_elastic",
               powers |-> Transmitted_power(call.displacements, call.velocities, call.k_p),
               work |-> Work_elastic(call.t, call.displacements, call.velocities, call.k_p)]
    /\ UNCHANGED <<call, runVars>>

Call_work_diss ==
    /\ call.fn = "work_diss"
    /\ ~done
    /\ done' = TRUE
    /\ ret' = [fn |-> "work_diss",
               powers |-> Dissipated_power(call.velocities, call.h_eta),
               work |-> Work_diss(call.t, call.velocities, call.h_eta)]
    /\ UNCHANGED <<call, runVars>>

Call_discretize_curve ==
    /\ call.fn = "discretize_curve"
    /\ ~done
    /\ done' = TRUE
    /\ ret' = [fn |-> "discretize_curve",
               curve |-> Discretize_curve(call.time_points, call.displacements, call.step_size)]
    /\ UNCHANGED <<call, runVars>>

Call_FullModel_rhs ==
    /\ call.fn = "FullModel.rhs"
    /\ ~done
    /\ done' = TRUE
    /\ ret' = [fn |-> "FullModel.rhs", rhs |-> FullRhs(call.self, call.t, call.y)]
    /\ UNCHANGED <<call, runVars>>

Call_FullModel_velocity ==
    /\ call.fn = "FullModel.velocity"
    /\ ~done
    /\ done' = TRUE
    /\ ret' = [fn |-> "FullModel.velocity",
               velocity |-> FullVelocity(call.self, call.t, call.force, call.N)]
    /\ UNCHANGED <<call, runVars>>

Call_DensityModel_rhs ==
    /\ call.fn = "DensityModel.rhs"
    /\ ~done
    /\ done' = TRUE
    /\ ret' = [fn |-> "DensityModel.rhs", rhs |-> DensityRhs(call.self, call.t, call.y)]
    /\ UNCHANGED <<call, runVars>>

Call_DensityModel_velocity ==
    /\ call.fn = "DensityModel.velocity"
    /\ ~done
    /\ done' = TRUE
    /\ ret' = [fn |-> "DensityModel.velocity",
               velocity |-> DensityVelocity(call.self, call.t, call.force)]
    /\ UNCHANGED <<call, runVars>>

Call_velos_numerical ==
    /\ call.fn = "velos_numerical"
    /\ ~done
    /\ done' = TRUE
    /\ ret' = IF VelosRaises(call.times, call.displacements) = "none"
              THEN [fn |-> "velos_numerical", raised |-> "none",
                    velos |-> Velos_numerical(call.times, call.displacements)]
              ELSE [fn |-> "velos_numerical",
                    raised |-> VelosRaises(call.times, call.displacements),
                    velos |-> <<>>]
    /\ UNCHANGED <<call, runVars>>

NextFn ==
    \/ Call_k_off_fil
    \/ Call_work_elastic
    \/ Call_work_diss
    \/ Call_discretize_curve
    \/ Call_FullModel_rhs
    \/ Call_FullModel_velocity
    \/ Call_DensityModel_rhs
    \/ Call_DensityModel_velocity
    \/ Call_velos_numerical

vars == <<call, ret, done, runVars>>

Spec == Init /\ [][Next]_vars

SpecFn == InitFn /\ [][NextFn]_vars

(***************************************************************************)
(* Claims                                                                  *)
(***************************************************************************)
Returned(f) == done /\ call.fn = f

\* sum over i of (t_i - t_{i-1}) * p_i, the time before t_0 being 0
RECURSIVE IntervalSum(_, _, _)
IntervalSum(t, p, k) ==
    IF k = 0 THEN Zero
    ELSE RAdd(IntervalSum(t, p, k - 1),
              RMul(RSub(t[k], IF k = 1 THEN Zero ELSE t[k - 1]), p[k]))

\* C1: the cumulative work returned by work_elastic and by work_diss is the sum
\* over i of (t_i - t_{i-1}) * p_i, each sample weighted by the width of the
\* interval that ends at it.
C1_IntervalWeightedWork ==
    (Returned("work_elastic") \/ Returned("work_diss")) =>
        ret.work = IntervalSum(call.t, ret.powers, Len(call.t))

\* C2 (as stated): with Nh = 1 and k_on > 0 the filament off-rate k_off_fil(F)
\* equals the single-head off-rate __k_off(F).
C2_SingleHeadEqual ==
    (Returned("k_off_fil") /\ call.self.Nh = 1) => ret.k_off_fil = ret.k_off

\* C2 (amended): with Nh = 1 and k_on > 0 the filament off-rate is the
\* single-head off-rate divided by the probability that the head is bound:
\* k_off_fil(F) = __k_off(F) * (k_on + __k_off(F)) / k_on.
C2_SingleHeadRate ==
    (Returned("k_off_fil") /\ call.self.Nh = 1) =>
        RMul(ret.k_off_fil, call.self.k_on)
            = RMul(ret.k_off, RAdd(call.self.k_on, ret.k_off))

C2_Witness ==
    /\ Returned("k_off_fil")
    /\ call.self.Nh = 1
    /\ call.total_force # Zero
    /\ call.self.a_per_kBT # Zero
    /\ call.self.x_catch # Zero

\* C6: __calc_prob_dist returns Nh + 1 entries, entry n is the product over
\* i = 0..n-1 of (Nh-i)*k_on / ((i+1)*k_off(F/(i+1))) over the sum of those
\* products (so consecutive entries are in that ratio), and the entries sum to 1.
C6_ProbDist ==
    Returned("k_off_fil") =>
        LET m == call.self
            F == call.total_force
            pns == ret.pns
            P(j) == pns[j + 1]
        IN  /\ Len(pns) = m.Nh + 1
            /\ RSum(P, 0, m.Nh) = One
            /\ RPos(P(0))
            /\ \A n \in 0..(m.Nh - 1) :
                   RMul(P(n + 1), RMul(R(n + 1), K_off(m, RDiv(F, R(n + 1)))))
                       = RMul(P(n), RMul(R(m.Nh - n), m.k_on))

C6_Witness ==
    /\ Returned("k_off_fil")
    /\ call.self.Nh = 3
    /\ call.total_force # Zero
    /\ call.self.a_per_kBT # Zero
    /\ call.self.x_slip # Zero

\* index of the original point that sample i is (points are told apart by
\* their displacement)
SampleIndex(i) == ret.curve[2][i].n - 10

NonDecreasing(t) == \A k \in 1..(Len(t) - 1) : RGeq(t[k + 1], t[k])

\* position of the first point after position `from` whose time is >= bound
\* (0 when there is none)
FirstAtOrAfter(t, from, bound) ==
    LET S == {j \in (from + 1)..Len(t) : RGeq(t[j], bound)}
    IN  IF S = {} THEN 0 ELSE CHOOSE j \in S : \A k \in S : j <= k

\* C8 (as stated): for non-decreasing times, sample i of discretize_curve is
\* the first point of the original trajectory whose time is >= i * step_size.
C8_FirstPointOfTrajectory ==
    (Returned("discretize_curve") /\ NonDecreasing(call.time_points)) =>
        \A i \in 1..Len(ret.curve[1]) :
            SampleIndex(i)
                = FirstAtOrAfter(call.time_points, 0, RMul(R(i - 1), call.step_size))

\* C8 (amended): sample i of discretize_curve is the first point that follows
\* the point taken as sample i-1 (for sample 0: the first point) and whose
\* time is >= i * step_size; the samples end when no such point is left.
C8_FirstPointAfterPrevious ==
    Returned("discretize_curve") =>
        LET t == call.time_points
            n == Len(ret.curve[1])
            prev(i) == IF i = 1 THEN 0 ELSE SampleIndex(i - 1)
        IN  /\ Len(ret.curve[2]) = n
            /\ \A i \in 1..n :
                   /\ SampleIndex(i) = FirstAtOrAfter(t, prev(i), RMul(R(i - 1), call.step_size))
                   /\ ret.curve[1][i] = t[SampleIndex(i)]
            /\ FirstAtOrAfter(t, prev(n + 1), RMul(R(n), call.step_size)) = 0

\* a grid with a gap wider than the step, sampled more than once after the gap
C8_Witness ==
    /\ Returned("discretize_curve")
    /\ NonDecreasing(call.time_points)
    /\ Len(ret.curve[1]) = 3
    /\ \E k \in 1..(Len(call.time_points) - 1) :
           RLt(RAdd(call.time_points[k], call.step_size), call.time_points[k + 1])

(***************************************************************************)
(* Claims about a run                                                      *)
(***************************************************************************)
Schema(model_type) ==
    IF model_type = "full model" THEN full_model_parameter_names
    ELSE density_model_parameter_names

IsKnown(model_type) == model_type = "full model" \/ model_type = "density model"

\* the lines of the file that begin with the name
LinesFor(file, name) == {k \in 1..Len(file) : Len(file[k]) >= 1 /\ file[k][1] = name}

LacksKey(file, names) == \E k \in 1..Len(names) : LinesFor(file, names[k]) = {}

HasDuplicate(file, names) == \E k \in 1..Len(names) : Cardinality(LinesFor(file, names[k])) >= 2

HasShortLine(file) == \E k \in 1..Len(file) : Len(file[k]) < 3

\* load_parameters has handed its list to its caller
LoadReturned ==
    \/ call.fn = "load_parameters" /\ done
    \/ call.fn = "calculate_contraction_dynamics" /\ (pc = "model_init" \/ self # NoObject)

\* the run has ended inside load_parameters
LoadFailed == pc = "exited" /\ self = NoObject /\ call.fn \in {"load_parameters", "calculate_contraction_dynamics"}

\* C3: when the file lacks a required key, the run ends with exit status 1 in
\* load_parameters, which never returns a vector: no model object (parameter
\* dictionary, A0, tau) is ever set and no integration is started.
C3_MissingKeyIsFatal ==
    (call.fn \in {"load_parameters", "calculate_contraction_dynamics"}
        /\ IsKnown(call.model_type)
        /\ LacksKey(call.parameter_file, Schema(call.model_type))) =>
            /\ ~LoadReturned
            /\ ~done
            /\ self = NoObject
            /\ sol = NotStarted
            /\ pc \in {"ccd_enter", "lp_enter", "lp_open", "lp_lines", "exited"}
            /\ pc = "exited" => (exitStatus = 1 /\ error \in {"SystemExit", "IndexError"})
            /\ (pc = "exited" /\ ~HasShortLine(call.parameter_file)) => error = "SystemExit"

C3_Witness ==
    /\ call.fn = "calculate_contraction_dynamics"
    /\ call.model_type = "full model"
    /\ LacksKey(call.parameter_file, full_model_parameter_names)
    /\ pc = "exited"
    /\ error = "SystemExit"
    /\ lineNo = Len(call.parameter_file) + 1

\* C4 (as stated): when the file has two or more lines for the same required
\* name, load_parameters fails instead of returning a vector.
C4_DuplicateIsFatal ==
    (call.fn \in {"load_parameters", "calculate_contraction_dynamics"}
        /\ IsKnown(call.model_type)
        /\ HasDuplicate(call.parameter_file, Schema(call.model_type))) => ~LoadReturned

\* the value of the last line for the name whose value parses; the default
\* 0.0 when there is none
LastParsed(file, name) ==
    LET S == {k \in LinesFor(file, name) :
                 Len(file[k]) >= 3 /\ ParseValue(name, file[k][3]) # ValueError}
    IN  IF S = {} THEN PyFloat(Zero)
        ELSE ParseValue(name, file[CHOOSE k \in S : \A j \in S : j <= k][3])

\* C4 (amended): a file with two or more lines for the same required name is
\* not rejected for it.  load_parameters returns a vector whenever every
\* required name begins some line and no line is empty or cut short, and
\* the entry of each parameter is the value of the last of its lines whose
\* value parses.
C4_LastLineWins ==
    (call.fn \in {"load_parameters", "calculate_contraction_dynamics"}
        /\ IsKnown(call.model_type)
        /\ HasDuplicate(call.parameter_file, Schema(call.model_type))) =>
            LET names == Schema(call.model_type)
                file == call.parameter_file
            IN  /\ LoadReturned =>
                      \A k \in 1..Len(names) : parameters[k] = LastParsed(file, names[k])
                /\ LoadFailed => (LacksKey(file, names) \/ HasShortLine(file))

\* a returned vector from a file with two different values for one name
C4_Witness ==
    /\ call.fn = "load_parameters"
    /\ done
    /\ \E k \in 1..Len(parameter_names) :
          \E i, j \in LinesFor(call.parameter_file, parameter_names[k]) :
              /\ i < j
              /\ call.parameter_file[i] # call.parameter_file[j]
              /\ Len(call.parameter_file[i]) = 3 /\ Len(call.parameter_file[j]) = 3
              /\ ParseValue(parameter_names[k], call.parameter_file[i][3]) # ValueError
              /\ parameters[k] = ParseValue(parameter_names[k], call.parameter_file[j][3])

\* C5: when the integrator stops before t_max, calculate_contraction_dynamics
\* does not return the normal result tuple built from the truncated trajectory.
C5_TruncationSignalled ==
    (call.fn = "calculate_contraction_dynamics" /\ done) =>
        (sol.status = "0" /\ Last(ret.t) = R(call.t_max))

VelocityAt(k) ==
    LET d == self.parameter_dict
        f == ret.y[1][k]
        ratio == RDiv(RSq(d["R0"].v), RSq(RSub(d["R0"].v, RDiv(f, d["k_p"].v))))
        factor == RNeg(RMul(ratio, RSub(ratio, d["rho_max_per_rho"].v)))
        coupling == IF call.model_type = "full model"
                    THEN RMul(d["xi_rho_a2"].v, ret.y[2][k])
                    ELSE d["xi_N_rho_a2"].v
    IN  RDiv(RSub(RMul(coupling, factor), f), RMul(RMul(Q(6, 5), Pi), d["h_eta"].v))

\* C9: whenever calculate_contraction_dynamics returns, the time grid, each
\* state component, the velocities and the two power series have the same
\* length, at least 1, and entry k of every series comes from the state at
\* time point k.
C9_SeriesAligned ==
    (call.fn = "calculate_contraction_dynamics" /\ done) =>
        LET n == Len(ret.t)
        IN  /\ n >= 1
            /\ Len(ret.y) = (IF call.model_type = "full model" THEN 2 ELSE 1)
            /\ \A r \in 1..Len(ret.y) : Len(ret.y[r]) = n
            /\ Len(ret.velocities) = n
            /\ Len(ret.transmitted_powers) = n
            /\ Len(ret.dissipated_powers) = n
            /\ \A k \in 1..n :
                  /\ ret.velocities[k] = VelocityAt(k)
                  /\ ret.transmitted_powers[k]
                        = RMul(R(10), RMul(ret.y[1][k], ret.velocities[k]))
                  /\ ret.dissipated_powers[k]
                        = RMul(RMul(R(24), RMul(Pi, self.parameter_dict["h_eta"].v)),
                               RSq(ret.velocities[k]))

C9_Witness ==
    /\ call.fn = "calculate_contraction_dynamics"
    /\ done
    /\ call.model_type = "full model"
    /\ Len(ret.t) = 3
    /\ ~IsNaN(ret.velocities[1])
    /\ ret.velocities[2] # ret.velocities[3]

\* C10: whenever load_parameters returns, the result has the arity of the
\* schema, entry k is a value given in the file for the k-th name, whatever
\* the order of the lines, and the entries of N_h and N_max are integers
\* while all others are floating point.
C10_LoadedVector ==
    (LoadReturned /\ call.fn \in {"load_parameters", "calculate_contraction_dynamics"}) =>
        LET names == Schema(call.model_type)
            file == call.parameter_file
        IN  /\ Len(parameters) = (IF call.model_type = "full model" THEN 13 ELSE 4)
            /\ \A k \in 1..Len(names) :
                  /\ \E i \in LinesFor(file, names[k]) :
                        /\ Len(file[i]) >= 3
                        /\ parameters[k] = ParseValue(names[k], file[i][3])
                  /\ parameters[k].ty = (IF names[k] \in {"N_h", "N_max"} THEN "int" ELSE "float")

(***************************************************************************)
(* Linearity of the cumulative work                                        *)
(***************************************************************************)
Scalars == {R(-2), Zero, Q(1, 2), R(3)}

Scale(c, powers) == [k \in 1..Len(powers) |-> RMul(c, powers[k])]

\* C11: for the time sequence and the power series of every returned call of
\* work_elastic or work_diss, and every scalar c, the loop run over the powers
\* c*p accumulates c times the work it accumulated over p.
C11_WorkLinear ==
    (done /\ call.fn \in {"work_elastic", "work_diss"}) =>
        \A c \in Scalars :
            WorkLoop(call.t, Scale(c, ret.powers), Zero, Min(Len(call.t), Len(ret.powers)))
                = RMul(c, ret.work)

C11_Witness ==
    /\ done
    /\ call.fn = "work_diss"
    /\ Len(call.t) = 3
    /\ call.t[1] # call.t[2]
    /\ ret.powers[1] # ret.powers[3]
    /\ ret.work # Zero

(***************************************************************************)
(* Positivity of the filament off-rate                                     *)
(***************************************************************************)
\* the denominator NB * k_off(force/NB) * P[NB] of the term for NB
OffTimeDenominator(m, total_force, pns, NB) ==
    RMul(RMul(R(NB), K_off(m, RDiv(total_force, R(NB)))), pns[NB + 1])

\* C12: for a total force >= 0, Nh >= 1, k_on > 0 and strictly positive
\* single-head off-rates, k_off_fil returns a strictly positive finite number,
\* so that the mean off-time T_off_av = 1 / k_off_fil is strictly positive, and
\* every denominator NB * k_off(force/NB) * P[NB] of the sum is non-zero.
C12_FilamentRatePositive ==
    LET m == call.self
        F == call.total_force
    IN  (/\ Returned("k_off_fil")
         /\ RGeq(F, Zero)
         /\ m.Nh >= 1
         /\ RPos(m.k_on)
         /\ \A NB \in 1..m.Nh : RPos(K_off(m, RDiv(F, R(NB))))) =>
            /\ RPos(ret.k_off_fil)
            /\ RPos(RInv(ret.k_off_fil))
            /\ \A NB \in 1..m.Nh :
                   LET den == OffTimeDenominator(m, F, ret.pns, NB)
                   IN  ~IsNaN(den) /\ den # Zero

C12_Witness ==
    /\ Returned("k_off_fil")
    /\ call.self.Nh = 3
    /\ call.total_force # Zero
    /\ call.self.a_per_kBT # Zero
    /\ call.self.x_catch # Zero
    /\ RPos(ret.k_off_fil)
    /\ ret.k_off_fil # ret.k_off

(***************************************************************************)
(* velocity against rhs                                                    *)
(***************************************************************************)
\* the ring area at a force, as rhs and velocity compute it
RingArea(m, force) == RMul(Pi, RSq(RSub(m.R0, RDiv(force, m.k_p))))

\* C13: at every state with a non-zero ring area, FullModel.velocity(t, force, N)
\* equals FullModel.rhs(t, [force, N])[0] / k_p and DensityModel.velocity(t, force)
\* equals DensityModel.rhs(t, [force])[0] / k_p; FullModel.rhs returns two
\* components and DensityModel.rhs returns one.
C13_VelocityIsForceRate ==
    /\ Returned("FullModel.rhs") =>
          /\ Len(ret.rhs) = 2
          /\ RingArea(call.self, call.y[1]) # Zero =>
                 /\ ~IsNaN(ret.rhs[1])
                 /\ FullVelocity(call.self, call.t, call.y[1], call.y[2])
                        = RDiv(ret.rhs[1], call.self.k_p)
    /\ Returned("FullModel.velocity") =>
          (RingArea(call.self, call.force) # Zero =>
              /\ ~IsNaN(ret.velocity)
              /\ ret.velocity
                    = RDiv(FullRhs(call.self, call.t, <<call.force, call.N>>)[1],
                           call.self.k_p))
    /\ Returned("DensityModel.rhs") =>
          /\ Len(ret.rhs) = 1
          /\ RingArea(call.self, call.y[1]) # Zero =>
                 /\ ~IsNaN(ret.rhs[1])
                 /\ DensityVelocity(call.self, call.t, call.y[1])
                        = RDiv(ret.rhs[1], call.self.k_p)
    /\ Returned("DensityModel.velocity") =>
          (RingArea(call.self, call.force) # Zero =>
              /\ ~IsNaN(ret.velocity)
              /\ ret.velocity
                    = RDiv(DensityRhs(call.self, call.t, <<call.force>>)[1], call.self.k_p))

C13_Witness ==
    /\ Returned("FullModel.velocity")
    /\ call.force = R(21)
    /\ call.N = R(2)
    /\ RingArea(call.self, call.force) # Zero
    /\ ~IsNaN(ret.velocity)
    /\ ret.velocity # Zero

(***************************************************************************)
(* velos_numerical                                                         *)
(***************************************************************************)
\* C14: for a discretized trajectory of n >= 2 points velos_numerical returns
\* n velocities, none left unset: entry 0 is the forward difference
\* (d[1]-d[0])/dt, entry n-1 the backward difference (d[n-1]-d[n-2])/dt, every
\* interior entry i the central difference (d[i+1]-d[i-1])/(2*dt), with dt the
\* spacing of the first two time points times 60; for n = 2 the two entries
\* are both defined and equal.
C14_VelosNumerical ==
    (Returned("velos_numerical") /\ Len(call.times) >= 2) =>
        LET n == Len(call.times)
            d == call.displacements
            dt == RMul(RSub(call.times[2], call.times[1]), R(60))
            velos == ret.velos
        IN  /\ ret.raised = "none"
            /\ Len(velos) = n
            /\ \A k \in 1..n : velos[k] # None /\ ~IsNaN(velos[k])
            /\ velos[1] = RDiv(RSub(d[2], d[1]), dt)
            /\ velos[n] = RDiv(RSub(d[n], d[n - 1]), dt)
            /\ \A k \in 2..(n - 1) :
                   velos[k] = RDiv(RSub(d[k + 1], d[k - 1]), RMul(R(2), dt))
            /\ n = 2 => velos[1] = velos[2]

C14_Witness ==
    /\ Returned("velos_numerical")
    /\ Len(call.times) = 3
    /\ RSub(call.times[3], call.times[2]) # RSub(call.times[2], call.times[1])
    /\ ret.raised = "none"
    /\ ret.velos[1] # ret.velos[2]
    /\ ret.velos[2] # ret.velos[3]

(***************************************************************************)
(* The found flags of load_parameters                                      *)
(***************************************************************************)
\* the lines of the file whose name is name and whose value parses
ParsedLinesFor(file, name) ==
    {i \in LinesFor(file, name) :
        Len(file[i]) >= 3 /\ ParseValue(name, file[i][3]) # ValueError}

\* C15: at every point of load_parameters and after it, a parameter is marked
\* as found only if its slot holds a value parsed from a line of the file; so
\* load_parameters never returns a vector in which a parameter whose only
\* lines have an unparsable value is still the default 0.
C15_FoundOnlyIfParsed ==
    /\ \A k \in 1..Len(parameters_found) :
          parameters_found[k] = 1 =>
              \E i \in ParsedLinesFor(call.parameter_file, parameter_names[k]) :
                  parameters[k] = ParseValue(parameter_names[k], call.parameter_file[i][3])
    /\ (LoadReturned /\ call.fn \in {"load_parameters", "calculate_contraction_dynamics"}) =>
          \A k \in 1..Len(parameter_names) :
              ParsedLinesFor(call.parameter_file, parameter_names[k]) # {}

=============================================================================
